---- MODULE Spec2Model ----
(***************************************************************************)
(* Model of the incremental indexer and hybrid retriever of AiCoder:       *)
(*   dependency_graph.py  DependencyGraph  (nodes, typed edges, hashes)    *)
(*   ast_parser.py        ASTParser        (chunk cache, import edges)     *)
(*   embedding_generator.py                (chunk ids)                     *)
(*   vector_db.py         AndroidVectorDB  (collection, lexical corpus)    *)
(*   project_indexer.py   ProjectIndexer   (full / incremental runs)       *)
(*                                                                         *)
(* A file's content is a version number (its bytes), Unreadable when the   *)
(* path cannot be opened.  A document is the list of its whitespace        *)
(* separated words.  Scores are fixed-point integers.                      *)
(***************************************************************************)
EXTENDS Integers, Sequences, FiniteSets, TLC

\* ---------------------------------------------------------------- bounds
MaxVersion == 2          \* contents a file can take: 1..MaxVersion
MaxEvents  == 3          \* index runs plus edits in one behaviour
MaxCalls   == 3          \* add_file / add_dependency calls in one behaviour (SpecGraph)
MaxDepth   == 3          \* largest depth asked of get_related_files
MaxCorpus  == 3          \* documents in the lexical corpus (SpecSearch)
MaxImports == 2          \* import statements of one file (SpecImport)
MaxK       == 2          \* largest n_results asked of hybrid_search

\* ------------------------------------------------------ the modelled project
\* Files found by the walk of project_indexer.py, in the order of its
\* extension loop: the Java sources A and C, then the Kotlin source B, all
\* under a directory named "java".
Walk == <<"A", "C", "B">>

\* A path an import resolves to that is no file on disk.
External == "X"

WalkFiles == {Walk[i] : i \in 1..Len(Walk)}

Paths == WalkFiles \cup {External}

Unreadable == 0

Versions == 1..MaxVersion

\* The import_declaration nodes of a file, already resolved by
\* _import_to_file (always to a .kt path): A imports the class of B, C
\* imports a class that is no file of the project, B has none.
Imports(f, v) ==
  CASE f = "A" -> <<"B">>
    [] f = "C" -> <<External>>
    [] OTHER   -> <<>>

\* The type tags of the chunks _traverse_code finds in a file.
ChunkTypes(f) ==
  CASE f = "A" -> <<"class", "function">>
    [] OTHER   -> <<"class">>

\* ---------------------------------------------------------------- helpers
Put(fn, k, v) == [x \in (DOMAIN fn) \cup {k} |-> IF x = k THEN v ELSE fn[x]]

Range(s) == {s[i] : i \in 1..Len(s)}

EmptyFn == [x \in {} |-> 0]

\* A str path and a pathlib.Path of the same file are different dictionary
\* keys: Path.__eq__ is false for a str and the hashes differ.
StrKey(f) == <<"str", f>>

PathKey(f) == <<"Path", f>>

KeyFile(k) == k[2]

Keys == {StrKey(f) : f \in Paths} \cup {PathKey(f) : f \in Paths}

\* ============================================================ state
VARIABLES
  content,      \* [Paths -> Versions \cup {Unreadable}], the files on disk
  dg,           \* the DependencyGraph: nodes, edges (pair -> type), file_hashes
  cache,        \* .ast_cache: file -> cached chunk list
  vdb,          \* the indexer's AndroidVectorDB: collection, chunk_documents,
                \* chunk_metadatas, bm25_index
  pc,           \* "idle" or "run" (inside _full_index / _incremental_index)
  mode,         \* "none", "full" or "incremental": the kind of the last run started
  queue,        \* files the running loop has still to process
  eligible,     \* files the current run set out to process
  attempted,    \* files _process_file was called on in the current run
  failed,       \* files whose _process_file raised in the current run
  snap,         \* dg, vdb taken when the current run started
  lastIndexed,  \* per file, the content whose processing last succeeded (0: never)
  failedAt,     \* per file, the content at which its last processing raised (0: none)
  log,          \* completed runs and edits, in order
  calls,        \* number of API calls made (SpecGraph)
  added,        \* the (source, target, kind) triples add_dependency was called with
  related,      \* last call of get_related_files: path, depth, files returned
  result,       \* last call of hybrid_search (SpecSearch)
  pending,      \* files an interrupted run had still to process
  qdb,          \* the AndroidVectorDB that AndroidCodeAI gives the retrieval engine
  answer,       \* last AndroidCodeAI.query: the lexical hits its search got
  ctx,          \* last call of get_context (SpecContext)
  lastStored,   \* last successful _process_file: file, content, documents stored
  lastStore,    \* last call of store_chunks since the last search (SpecSearch):
                \* the index before it, the chunks passed, whether it raised
  imp           \* the import loop of _extract_code_chunks (SpecImport): position,
                \* source file, imports to resolve, project_root, targets found

vars == <<content, dg, cache, vdb, pc, mode, queue, eligible, attempted, failed,
          snap, lastIndexed, failedAt, log, calls, added, related, result,
          pending, qdb, answer, ctx, lastStored, lastStore, imp>>

appVars == <<pending, qdb, answer, ctx, lastStored, lastStore, imp>>

\* ============================================== dependency_graph.py
EmptyHash == <<>>

md5(bytes) == <<bytes>>

calculate_file_hash(c, key) ==
  IF c[KeyFile(key)] = Unreadable THEN EmptyHash ELSE md5(c[KeyFile(key)])

NewGraph == [nodes |-> {}, edges |-> EmptyFn, file_hashes |-> EmptyFn]

add_file(g, c, file_path) ==
  IF file_path \notin g.nodes
  THEN [g EXCEPT !.nodes = @ \cup {file_path},
                 !.file_hashes = Put(@, StrKey(file_path),
                                     calculate_file_hash(c, StrKey(file_path)))]
  ELSE g

add_dependency(g, c, source, target, rel_type) ==
  LET g2 == add_file(add_file(g, c, source), c, target)
  IN IF <<source, target>> \notin DOMAIN g2.edges
     THEN [g2 EXCEPT !.edges = Put(@, <<source, target>>, rel_type)]
     ELSE g2

has_changed(g, c, key) ==
  IF key \notin DOMAIN g.file_hashes THEN TRUE
  ELSE calculate_file_hash(c, key) # g.file_hashes[key]

update_hash(g, c, key) ==
  [g EXCEPT !.file_hashes = Put(@, key, calculate_file_hash(c, key))]

\* networkx: successors / predecessors of a node of the DiGraph.
Neighbours(g, n, forward) ==
  IF forward THEN {t \in g.nodes : <<n, t>> \in DOMAIN g.edges}
  ELSE {s \in g.nodes : <<s, n>> \in DOMAIN g.edges}

RECURSIVE Reach(_, _, _, _)
Reach(g, frontier, seen, forward) ==
  LET next == UNION {Neighbours(g, n, forward) : n \in frontier} \ seen
  IN IF next = {} THEN seen ELSE Reach(g, next, seen \cup next, forward)

\* nx.descendants / nx.ancestors: the source itself is never included.
descendants(g, n) == Reach(g, {n}, {n}, TRUE) \ {n}

ancestors(g, n) == Reach(g, {n}, {n}, FALSE) \ {n}

RECURSIVE BfsLevel(_, _, _, _, _)
BfsLevel(g, frontier, seen, target, d) ==
  IF target \in frontier THEN d
  ELSE LET next == UNION {Neighbours(g, n, TRUE) : n \in frontier} \ seen
       IN BfsLevel(g, next, seen \cup next, target, d + 1)

\* nx.shortest_path_length, called only for a target reachable from source.
shortest_path_length(g, source, target) == BfsLevel(g, {source}, {source}, target, 0)

\* A bound that excludes the nodes exactly depth edges away.
WithinDepthStrict(length, depth) == length < depth

WithinDepth(length, depth) == length <= depth

get_related_files(g, file_path, depth) ==
  IF file_path \notin g.nodes THEN {}
  ELSE {a \in ancestors(g, file_path) :
          WithinDepth(shortest_path_length(g, a, file_path), depth)}
       \cup
       {d \in descendants(g, file_path) :
          WithinDepth(shortest_path_length(g, file_path, d), depth)}

\* ===================================================== ast_parser.py
\* The text of a chunk, as its list of words.
ChunkText(f, type, v) == <<f, type, ToString(v)>>

\* _traverse_code: one chunk per declaration found in the file's content.
traverse_code(c, f) ==
  [i \in 1..Len(ChunkTypes(f)) |->
     [type |-> ChunkTypes(f)[i],
      content |-> ChunkText(f, ChunkTypes(f)[i], c[f]),
      file_path |-> f]]

RECURSIVE AddImports(_, _, _, _)
AddImports(g, c, f, imports) ==
  IF imports = <<>> THEN g
  ELSE AddImports(add_dependency(g, c, f, Head(imports), "imports"), c, f, Tail(imports))

\* _generate_chunks with _extract_code_chunks: an unreadable file gives no
\* chunks; otherwise every resolved import becomes an "imports" edge, then
\* the declarations are chunked.
generate_chunks(g, c, f) ==
  IF c[f] = Unreadable THEN [chunks |-> <<>>, dg |-> g]
  ELSE [chunks |-> traverse_code(c, f),
        dg |-> AddImports(g, c, f, Imports(f, c[f]))]

\* extract_chunks: the cache is looked up by path alone.  fail = "chunk"
\* is an error raised while the cache file is written (lines 64-65).
extract_chunks(g, ch, c, f, fail) ==
  IF f \in DOMAIN ch
  THEN [chunks |-> ch[f], dg |-> g, cache |-> ch, raised |-> FALSE]
  ELSE LET gen == generate_chunks(g, c, f)
       IN IF fail = "chunk"
          THEN [chunks |-> <<>>, dg |-> gen.dg, cache |-> ch, raised |-> TRUE]
          ELSE [chunks |-> gen.chunks, dg |-> gen.dg,
                cache |-> Put(ch, f, gen.chunks), raised |-> FALSE]

\* ============================================ embedding_generator.py
\* The hex digest of md5("<file_path>-<type>"), a string of 32 hex digits.
chunk_id(chunk) == "md5(" \o chunk.file_path \o "-" \o chunk.type \o ")"

generate_embeddings(chunks) ==
  [i \in 1..Len(chunks) |->
     [type |-> chunks[i].type, content |-> chunks[i].content,
      file_path |-> chunks[i].file_path,
      embedding |-> <<"vec", chunks[i].content>>,
      chunk_id |-> chunk_id(chunks[i])]]

\* ======================================================= vector_db.py
NewVectorDB(coll) ==
  [collection |-> coll, chunk_documents |-> <<>>, chunk_metadatas |-> <<>>,
   bm25_index |-> <<>>, has_bm25 |-> FALSE]

Metadata(chunk) ==
  [file_path |-> chunk.file_path, type |-> chunk.type, chunk_id |-> chunk.chunk_id]

\* collection.add: a record whose id is already in the collection is left
\* as it is.
RECURSIVE collection_add(_, _)
collection_add(coll, chunks) ==
  IF chunks = <<>> THEN coll
  ELSE LET ck == Head(chunks)
           nxt == IF ck.chunk_id \in DOMAIN coll THEN coll
                  ELSE Put(coll, ck.chunk_id,
                           [document |-> ck.content, metadata |-> Metadata(ck),
                            embedding |-> ck.embedding])
       IN collection_add(nxt, Tail(chunks))

LexicalAppend(corpus, batch) == corpus \o batch

\* store_chunks with the lexical arrays extended before the vector write.
store_chunks_lexical_first(db, chunks, fail) ==
  LET documents == [i \in 1..Len(chunks) |-> chunks[i].content]
      metadatas == [i \in 1..Len(chunks) |-> Metadata(chunks[i])]
      db1 == [db EXCEPT !.chunk_documents = LexicalAppend(@, documents),
                        !.chunk_metadatas = LexicalAppend(@, metadatas)]
  IN IF chunks # <<>> /\ fail = "store" THEN [vdb |-> db1, raised |-> TRUE]
     ELSE LET db2 == [db1 EXCEPT !.collection = collection_add(@, chunks)]
          IN IF db2.chunk_documents = <<>> THEN [vdb |-> db2, raised |-> TRUE]
             ELSE [vdb |-> [db2 EXCEPT !.bm25_index = db2.chunk_documents,
                                       !.has_bm25 = TRUE],
                   raised |-> FALSE]

\* store_chunks.  fail = "store" is an error raised by collection.add;
\* BM25Okapi divides by the corpus size and raises on an empty corpus.
store_chunks(db, chunks, fail) ==
  LET documents == [i \in 1..Len(chunks) |-> chunks[i].content]
      metadatas == [i \in 1..Len(chunks) |-> Metadata(chunks[i])]
  IN IF chunks # <<>> /\ fail = "store" THEN [vdb |-> db, raised |-> TRUE]
     ELSE LET db2 == [db EXCEPT
                        !.collection = collection_add(@, chunks),
                        !.chunk_documents = LexicalAppend(@, documents),
                        !.chunk_metadatas = LexicalAppend(@, metadatas)]
          IN IF db2.chunk_documents = <<>> THEN [vdb |-> db2, raised |-> TRUE]
             ELSE [vdb |-> [db2 EXCEPT !.bm25_index = db2.chunk_documents,
                                       !.has_bm25 = TRUE],
                   raised |-> FALSE]

\* ---- rank_bm25.BM25Okapi as vector_db.py uses it (k1 = 1.5, b = 0.75,
\* epsilon = 0.25), in thousandths.
\* 1000 * ln(k + 0.5) for k = 0..8, rounded.
LnHalf == <<-693, 405, 916, 1253, 1504, 1705, 1872, 2015, 2140>>

TermFreq(doc, word) == Cardinality({i \in 1..Len(doc) : doc[i] = word})

Vocabulary(corpus) == UNION {Range(corpus[i]) : i \in 1..Len(corpus)}

DocFreq(corpus, word) == Cardinality({i \in 1..Len(corpus) : TermFreq(corpus[i], word) > 0})

RawIdf(corpus, word) ==
  LnHalf[Len(corpus) - DocFreq(corpus, word) + 1] - LnHalf[DocFreq(corpus, word) + 1]

RECURSIVE IdfSum(_, _)
IdfSum(words, corpus) ==
  IF words = {} THEN 0
  ELSE LET w == CHOOSE y \in words : TRUE
       IN RawIdf(corpus, w) + IdfSum(words \ {w}, corpus)

\* _calc_idf: a negative idf is replaced by epsilon times the average idf.
Idf(corpus, word) ==
  IF word \notin Vocabulary(corpus) THEN 0
  ELSE IF RawIdf(corpus, word) < 0
       THEN (IdfSum(Vocabulary(corpus), corpus)
               \div Cardinality(Vocabulary(corpus))) \div 4
       ELSE RawIdf(corpus, word)

RECURSIVE TotalLen(_)
TotalLen(corpus) == IF corpus = <<>> THEN 0 ELSE Len(Head(corpus)) + TotalLen(Tail(corpus))

\* get_scores for one document: sum over the query words of
\* idf * tf * (k1 + 1) / (tf + k1 * (1 - b + b * len / avgdl)); idf is the
\* table BM25Okapi computed for the corpus, total the summed document length.
RECURSIVE DocScore(_, _, _, _, _)
DocScore(corpus, idf, total, i, query) ==
  IF query = <<>> THEN 0
  ELSE LET q == Head(query)
           tf == TermFreq(corpus[i], q)
       IN (idf[q] * 20 * tf * total)
            \div (8 * tf * total + 3 * total + 9 * Len(corpus[i]) * Len(corpus))
          + DocScore(corpus, idf, total, i, Tail(query))

get_scores(corpus, query) ==
  LET idf == [q \in Range(query) |-> Idf(corpus, q)]
      total == TotalLen(corpus)
  IN [i \in 1..Len(corpus) |-> DocScore(corpus, idf, total, i, query)]

\* np.argsort(scores)[::-1] sorts with the default kind, which is not
\* stable: the order it leaves equal scores in depends on the numpy build.
\* tie is that order, a permutation of the indices: of two equal scores the
\* index with the larger tie value comes first.  A build that sorts short
\* arrays by insertion gives the identity (the later document first).
TieOrders(n) == {p \in [1..n -> 1..n] : \A i, j \in 1..n : p[i] = p[j] => i = j}

\* The rank of index i in the descending order.
ArgsortRank(scores, i, tie) ==
  Cardinality({j \in 1..Len(scores) :
                 scores[j] > scores[i] \/ (scores[j] = scores[i] /\ tie[j] > tie[i])})

Min(a, b) == IF a <= b THEN a ELSE b

top_indices(scores, n_results, tie) ==
  [r \in 1..Min(n_results, Len(scores)) |->
     CHOOSE i \in 1..Len(scores) : ArgsortRank(scores, i, tie) = r - 1]

\* The id a lexical hit is given: the decimal digits of its 0-based index.
LexicalId(idx) == ToString(idx - 1)

\* Lines 82-94 of _bm25_search: the hits for the scores of the documents.
bm25_hits(db, scores, n_results, tie) ==
  LET top == top_indices(scores, n_results, tie)
  IN [r \in 1..Len(top) |->
        [id |-> LexicalId(top[r]),
         document |-> db.chunk_documents[top[r]],
         metadata |-> db.chunk_metadatas[top[r]],
         score |-> scores[top[r]]]]

bm25_search(db, query, n_results, tie) ==
  IF ~db.has_bm25 THEN <<>>
  ELSE bm25_hits(db, get_scores(db.bm25_index, query), n_results, tie)

\* The lists _bm25_search can return, over the orders argsort can leave
\* equal scores in.
LexicalOutcomes(db, query, n_results) ==
  IF ~db.has_bm25 THEN {<<>>}
  ELSE UNION {{bm25_hits(db, scores, n_results, tie) : tie \in TieOrders(Len(scores))} :
                scores \in {get_scores(db.bm25_index, query)}}

\* Scores of the fused list are kept in ten-thousandths: One is 1.0, and a
\* raw lexical score in thousandths divided by 10 is the same number.
One == 10000

vector_score(distance) == One - distance

normalized_score(raw) == Min(One, raw)

\* The first two loops of _combine_results: vector hits, then lexical hits.
combined(db, hits, bm25_results) ==
  [i \in 1..Len(hits) |->
     [id |-> hits[i].id,
      document |-> db.collection[hits[i].id].document,
      metadata |-> db.collection[hits[i].id].metadata,
      score |-> vector_score(hits[i].distance)]]
  \o
  [j \in 1..Len(bm25_results) |->
     [id |-> bm25_results[j].id,
      document |-> bm25_results[j].document,
      metadata |-> bm25_results[j].metadata,
      score |-> normalized_score(bm25_results[j].score)]]

\* Deduplicate by id, keeping the first occurrence.
deduped(items) ==
  SelectSeq([i \in 1..Len(items) |-> <<i, items[i]>>],
            LAMBDA e : \A j \in 1..(e[1] - 1) : items[j].id # e[2].id)

\* A descending sort that reverses the order of equal scores.
SortRankTiesReversed(items, p) ==
  Cardinality({q \in 1..Len(items) :
                 items[q][2].score > items[p][2].score
                 \/ (items[q][2].score = items[p][2].score /\ q > p)})

\* sorted(..., reverse=True) is stable: equal scores keep their order.
SortRank(items, p) ==
  Cardinality({q \in 1..Len(items) :
                 items[q][2].score > items[p][2].score
                 \/ (items[q][2].score = items[p][2].score /\ q < p)})

combine_results(db, hits, bm25_results, n_results) ==
  LET d == deduped(combined(db, hits, bm25_results))
  IN [r \in 1..Min(n_results, Len(d)) |->
        d[CHOOSE p \in 1..Len(d) : SortRank(d, p) = r - 1][2]]

\* hybrid_search.  vector is the outcome of collection.query: it raised, or
\* it returned hits (id, distance).  An exception is not caught.
fuse(db, vector, bm25_results, n_results) ==
  IF vector.raised THEN [raised |-> TRUE, list |-> <<>>]
  ELSE [raised |-> FALSE,
        list |-> combine_results(db, vector.hits, bm25_results, n_results)]

hybrid_search(db, query, n_results, vector, tie) ==
  fuse(db, vector, bm25_search(db, query, n_results, tie), n_results)

\* =============================================== context_retrieval.py
\* Query texts are strings; str.lower and str.split work on their characters.
UpperCase == "ABCDEFGHIJKLMNOPQRSTUVWXYZ"

LowerCase == "abcdefghijklmnopqrstuvwxyz"

LowerChar(c) ==
  IF \E i \in 1..Len(UpperCase) : SubSeq(UpperCase, i, i) = c
  THEN LET i == CHOOSE i \in 1..Len(UpperCase) : SubSeq(UpperCase, i, i) = c
       IN SubSeq(LowerCase, i, i)
  ELSE c

RECURSIVE lower(_)
lower(s) ==
  IF Len(s) = 0 THEN ""
  ELSE LowerChar(SubSeq(s, 1, 1)) \o lower(SubSeq(s, 2, Len(s)))

\* keyword in query_lower
Contains(keyword, s) ==
  \E i \in 1..(Len(s) - Len(keyword) + 1) : SubSeq(s, i, i + Len(keyword) - 1) = keyword

RECURSIVE SplitFrom(_, _, _)
SplitFrom(s, word, acc) ==
  LET done == IF Len(word) = 0 THEN acc ELSE Append(acc, word)
  IN IF Len(s) = 0 THEN done
     ELSE IF SubSeq(s, 1, 1) = " "
          THEN SplitFrom(SubSeq(s, 2, Len(s)), "", done)
          ELSE SplitFrom(SubSeq(s, 2, Len(s)), word \o SubSeq(s, 1, 1), acc)

\* str.split(): the maximal runs of non-blank characters, in order.
split(s) == SplitFrom(s, "", <<>>)

\* QueryAnalyzer.query_types, in the insertion order of the dict.
query_types ==
  << [qtype |-> "di",
      keywords |-> <<"dagger", "hilt", "koin", "inject", "component", "module", "provide">>],
     [qtype |-> "ui",
      keywords |-> <<"layout", "view", "compose", "xml", "button", "text", "image">>],
     [qtype |-> "logic",
      keywords |-> <<"function", "method", "class", "logic", "algorithm", "calculate">>],
     [qtype |-> "data",
      keywords |-> <<"database", "room", "api", "network", "retrofit", "data source">> ] >>

\* The loop of analyze_query from category c, keyword k on.
RECURSIVE AnalyzeFrom(_, _, _)
AnalyzeFrom(text, c, k) ==
  IF c > Len(query_types) THEN "general"
  ELSE IF k > Len(query_types[c].keywords) THEN AnalyzeFrom(text, c + 1, 1)
  ELSE IF Contains(query_types[c].keywords[k], text) THEN query_types[c].qtype
  ELSE AnalyzeFrom(text, c, k + 1)

\* analyze_query without the lower-casing of the query.
analyze_query_as_typed(query) == AnalyzeFrom(query, 1, 1)

analyze_query(query) == AnalyzeFrom(lower(query), 1, 1)

\* The grouping of the chunks by file: per file, its entries in list order.
context_by_file(chunks) ==
  [f \in {chunks[i].metadata.file_path : i \in 1..Len(chunks)} |->
     LET of_file == SelectSeq(chunks, LAMBDA chunk : chunk.metadata.file_path = f)
     IN [i \in 1..Len(of_file) |->
           [content |-> of_file[i].document, type |-> of_file[i].metadata.type,
            score |-> of_file[i].score]]]

\* get_context: the label, and the chunks hybrid_search returns for the query.
\* Lines 16-34 of get_context: r is what hybrid_search returned or raised.
context_of(query_type, r) ==
  IF r.raised
  THEN [raised |-> TRUE, query_type |-> "-", chunks |-> <<>>, files |-> EmptyFn]
  ELSE [raised |-> FALSE, query_type |-> query_type, chunks |-> r.list,
        files |-> context_by_file(r.list)]

get_context(db, query, max_chunks, vector, tie) ==
  context_of(analyze_query(query),
             hybrid_search(db, split(query), max_chunks, vector, tie))

\* ================================================= project_indexer.py
Failures == {"none", "chunk", "embed", "store"}

\* _process_file on the indexer state st = [dg, cache, vdb].
process_file(st, c, f, fail) ==
  LET g1 == add_file(st.dg, c, f)
      ex == extract_chunks(g1, st.cache, c, f, fail)
  IN IF ex.raised \/ fail = "embed"
     THEN [dg |-> ex.dg, cache |-> ex.cache, vdb |-> st.vdb, raised |-> TRUE,
           stored |-> <<>>]
     ELSE LET sc == store_chunks(st.vdb, generate_embeddings(ex.chunks), fail)
          IN IF sc.raised
             THEN [dg |-> ex.dg, cache |-> ex.cache, vdb |-> sc.vdb, raised |-> TRUE,
                   stored |-> <<>>]
             ELSE [dg |-> update_hash(ex.dg, c, StrKey(f)), cache |-> ex.cache,
                   vdb |-> sc.vdb, raised |-> FALSE, stored |-> ex.chunks]

\* A loop without the try/except: an error in one file ends the run.
AfterFileAbort(q, raised) == IF raised THEN <<>> ELSE Tail(q)

\* The try/except around _process_file: the loop goes on to the next file
\* whether or not the call raised.
AfterFile(q, raised) == Tail(q)

\* The scan of _incremental_index: has_changed is asked with the Path object
\* the walk yields.
changed_files(g, c) == SelectSeq(Walk, LAMBDA f : has_changed(g, c, PathKey(f)))

\* ============================================ the indexer as a state machine
NoAnswer == [path |-> "-", depth |-> 0, files |-> {}]

NoVector == [raised |-> FALSE, hits |-> <<>>]

NoResult ==
  [called |-> FALSE, raised |-> FALSE, list |-> <<>>, query |-> <<>>, n |-> 0,
   vector |-> NoVector, lexical |-> <<>>]

NoQuery == [called |-> FALSE, question |-> "", lexical |-> <<>>]

NoContext ==
  [called |-> FALSE, raised |-> FALSE, query_type |-> "-", chunks |-> <<>>,
   files |-> EmptyFn, query |-> "", n |-> 0, vector |-> NoVector, lexical |-> <<>>]

NotStored == [file |-> "-", version |-> 0, documents |-> <<>>]

NoImports ==
  [pc |-> "idle", source |-> <<>>, imports |-> <<>>, project_root |-> <<>>,
   targets |-> <<>>]

NoStore == [called |-> FALSE, raised |-> FALSE, chunks |-> <<>>, before |-> NewVectorDB(EmptyFn)]

Event(ev, f, ok) == [ev |-> ev, f |-> f, ok |-> ok]

Init ==
  /\ content = [f \in Paths |-> IF f = External THEN Unreadable ELSE 1]
  /\ dg = NewGraph
  /\ cache = EmptyFn
  /\ vdb = NewVectorDB(EmptyFn)
  /\ pc = "idle"
  /\ mode = "none"
  /\ queue = <<>>
  /\ eligible = {}
  /\ attempted = {}
  /\ failed = {}
  /\ snap = [dg |-> NewGraph, vdb |-> NewVectorDB(EmptyFn)]
  /\ lastIndexed = [f \in WalkFiles |-> 0]
  /\ failedAt = [f \in WalkFiles |-> 0]
  /\ log = <<>>
  /\ calls = 0
  /\ added = {}
  /\ related = NoAnswer
  /\ result = NoResult
  /\ pending = {}
  /\ qdb = NewVectorDB(EmptyFn)
  /\ answer = NoQuery
  /\ ctx = NoContext
  /\ lastStored = NotStored
  /\ lastStore = NoStore
  /\ imp = NoImports

StartRun(kind, files) ==
  /\ pc = "idle"
  /\ Len(log) < MaxEvents
  /\ pc' = "run"
  /\ mode' = kind
  /\ queue' = files
  /\ eligible' = Range(files)
  /\ attempted' = {}
  /\ failed' = {}
  /\ snap' = [dg |-> dg, vdb |-> vdb]
  /\ pending' = {}
  /\ answer' = NoQuery
  /\ UNCHANGED <<content, dg, cache, vdb, lastIndexed, failedAt, log, calls, added,
                 related, result, qdb, ctx, lastStored, lastStore, imp>>

\* _full_index: every file of the walk.
StartFull == StartRun("full", Walk)

\* _incremental_index: the files the scan found changed.
StartIncremental == StartRun("incremental", changed_files(dg, content))

\* One iteration of the processing loop of either run.
ProcessNext ==
  /\ pc = "run"
  /\ queue # <<>>
  /\ \E fail \in Failures :
       LET f == Head(queue)
           r == process_file([dg |-> dg, cache |-> cache, vdb |-> vdb], content, f, fail)
       IN /\ dg' = IF mode = "incremental" /\ ~r.raised
                   THEN update_hash(r.dg, content, PathKey(f))
                   ELSE r.dg
          /\ cache' = r.cache
          /\ vdb' = r.vdb
          /\ queue' = AfterFile(queue, r.raised)
          /\ attempted' = attempted \cup {f}
          /\ failed' = IF r.raised THEN failed \cup {f} ELSE failed
          /\ lastIndexed' = IF r.raised THEN lastIndexed
                            ELSE [lastIndexed EXCEPT ![f] = content[f]]
          /\ failedAt' = [failedAt EXCEPT ![f] = IF r.raised THEN content[f] ELSE 0]
          /\ lastStored' = IF r.raised THEN lastStored
                           ELSE [file |-> f, version |-> content[f],
                                 documents |-> [i \in 1..Len(r.stored) |->
                                                  r.stored[i].content]]
  /\ UNCHANGED <<content, pc, mode, eligible, snap, log, calls, added, related, result,
                 pending, qdb, answer, ctx, lastStore, imp>>

\* The loop is over: last_index_time is set and the run returns.
FinishRun ==
  /\ pc = "run"
  /\ queue = <<>>
  /\ pc' = "idle"
  /\ log' = Append(log, Event(mode, "-", failed = {}))
  /\ UNCHANGED <<content, dg, cache, vdb, mode, queue, eligible, attempted, failed,
                 snap, lastIndexed, failedAt, calls, added, related, result, appVars>>

\* The run is stopped between two files (a KeyboardInterrupt is not an
\* Exception, so the loop's handler lets it through): the files still to come
\* are not processed and last_index_time is not set.
Interrupt ==
  /\ pc = "run"
  /\ attempted # {}
  /\ queue # <<>>
  /\ pc' = "idle"
  /\ pending' = Range(queue)
  /\ queue' = <<>>
  /\ log' = Append(log, Event("interrupted", "-", FALSE))
  /\ UNCHANGED <<content, dg, cache, vdb, mode, eligible, attempted, failed,
                 snap, lastIndexed, failedAt, calls, added, related, result,
                 qdb, answer, ctx, lastStored, lastStore, imp>>

\* The chunks get_context asks hybrid_search for when the caller names none.
DefaultMaxChunks == 15

\* AndroidCodeAI.query less than an hour after an index run of this session
\* completed (an older last_index_time makes query run _incremental_index
\* first: StartIncremental ... FinishRun, then this step).  The retrieval
\* engine searches the AndroidVectorDB built in AndroidCodeAI.__init__; its
\* lexical hits are kept until the next run starts.
Query ==
  /\ pc = "idle"
  /\ mode # "none"
  /\ pending = {}
  /\ ~answer.called
  /\ \E question \in {"Hilt class"},
        tie \in TieOrders(Len(qdb.chunk_documents)) :
       answer' = [called |-> TRUE, question |-> question,
                  lexical |-> bm25_search(qdb, split(question), DefaultMaxChunks, tie)]
  /\ UNCHANGED <<content, dg, cache, vdb, pc, mode, queue, eligible, attempted, failed,
                 snap, lastIndexed, failedAt, log, calls, added, related, result,
                 pending, qdb, ctx, lastStored, lastStore, imp>>

\* The user edits a file of the project between two runs.
Edit ==
  /\ pc = "idle"
  /\ Len(log) < MaxEvents
  /\ \E f \in WalkFiles : \E v \in Versions \ {content[f]} :
       /\ content' = [content EXCEPT ![f] = v]
       /\ log' = Append(log, Event("edit", f, TRUE))
  /\ UNCHANGED <<dg, cache, vdb, pc, mode, queue, eligible, attempted, failed,
                 snap, lastIndexed, failedAt, calls, added, related, result, appVars>>

\* The process ends and a new one starts: AndroidCodeAI.__init__ builds a new
\* DependencyGraph, a new indexer and new AndroidVectorDB objects; the chunk
\* cache directory and the persistent collection stay on disk.
Restart ==
  /\ pc = "idle"
  /\ mode # "none"
  /\ Len(log) < MaxEvents
  /\ dg' = NewGraph
  /\ vdb' = NewVectorDB(vdb.collection)
  /\ qdb' = NewVectorDB(EmptyFn)
  /\ mode' = "none"
  /\ eligible' = {}
  /\ attempted' = {}
  /\ failed' = {}
  /\ snap' = [dg |-> NewGraph, vdb |-> NewVectorDB(vdb.collection)]
  /\ lastIndexed' = [f \in WalkFiles |-> 0]
  /\ failedAt' = [f \in WalkFiles |-> 0]
  /\ pending' = {}
  /\ answer' = NoQuery
  /\ lastStored' = NotStored
  /\ log' = Append(log, Event("restart", "-", TRUE))
  /\ UNCHANGED <<content, cache, pc, queue, calls, added, related, result, ctx,
                 lastStore, imp>>

Next ==
  \/ StartFull \/ StartIncremental \/ ProcessNext \/ FinishRun
  \/ Interrupt \/ Edit \/ Restart \/ Query

Spec == Init /\ [][Next]_vars

\* ================================================== claims on the indexer
\* What the two indexes hold for one file: its records of the collection
\* and its entries of the lexical corpus, in corpus order.
StoredChunks(db, f) ==
  [vector |-> {db.collection[id] : id \in {i \in DOMAIN db.collection :
                                             db.collection[i].metadata.file_path = f}},
   lexical |-> SelectSeq([i \in 1..Len(db.chunk_documents) |->
                            <<db.chunk_metadatas[i], db.chunk_documents[i]>>],
                         LAMBDA e : e[1].file_path = f)]

Fingerprints(g, f) ==
  [k \in {x \in DOMAIN g.file_hashes : KeyFile(x) = f} |-> g.file_hashes[k]]

LexicalIds(db) == [i \in 1..Len(db.chunk_metadatas) |-> db.chunk_metadatas[i].chunk_id]

NoDuplicates(s) == \A i, j \in 1..Len(s) : s[i] = s[j] => i = j

LastEvents(n) == SubSeq(log, Len(log) - n + 1, Len(log))

\* A full index of the current contents by a new indexer with an empty
\* cache and an empty collection, no call failing.
RECURSIVE RunAll(_, _, _)
RunAll(st, c, files) ==
  IF files = <<>> THEN st
  ELSE RunAll(process_file(st, c, Head(files), "none"), c, Tail(files))

FreshFullIndex(c) ==
  RunAll([dg |-> NewGraph, cache |-> EmptyFn, vdb |-> NewVectorDB(EmptyFn)], c, Walk)

\* C1: has_changed(F) is true while F was never indexed, false once F was
\* indexed successfully and not edited since, and true again once F's
\* content differs from the indexed one.
C1_ChangeDetection ==
  \A f \in WalkFiles :
    /\ lastIndexed[f] = 0 => has_changed(dg, content, StrKey(f))
    /\ (lastIndexed[f] # 0 /\ lastIndexed[f] = content[f])
         => ~has_changed(dg, content, StrKey(f))
    /\ (lastIndexed[f] # 0 /\ lastIndexed[f] # content[f])
         => has_changed(dg, content, StrKey(f))

\* C2: in the incremental run that follows a full index and the edit of one
\* file b, only b is selected and processed, and the fingerprints and stored
\* chunks of every other file are as they were when the run started.
C2_OnlyEditedFileProcessed ==
  \A b \in WalkFiles :
    ( /\ pc = "run" /\ mode = "incremental"
      /\ Len(log) >= 2
      /\ LastEvents(2) = <<Event("full", "-", TRUE), Event("edit", b, TRUE)>> )
    => /\ eligible \subseteq {b}
       /\ attempted \subseteq {b}
       /\ \A f \in WalkFiles \ {b} :
            /\ Fingerprints(dg, f) = Fingerprints(snap.dg, f)
            /\ StoredChunks(vdb, f) = StoredChunks(snap.vdb, f)

\* C3: after two full index runs in a row with no edit in between, both
\* indexes hold the chunk identities they held after the first run, each
\* once.
C3_IdempotentReindex ==
  ( /\ pc = "idle"
    /\ Len(log) >= 2
    /\ LastEvents(2) = <<Event("full", "-", TRUE), Event("full", "-", TRUE)>> )
  => /\ DOMAIN vdb.collection = DOMAIN snap.vdb.collection
     /\ Range(LexicalIds(vdb)) = Range(LexicalIds(snap.vdb))
     /\ Len(LexicalIds(vdb)) = Len(LexicalIds(snap.vdb))
     /\ NoDuplicates(LexicalIds(vdb))

\* C4: full index, edit of one file, incremental index ends with the
\* collection and the lexical corpus of one full index of the edited project.
C4_IncrementalEqualsFull ==
  \A b \in WalkFiles :
    ( /\ pc = "idle"
      /\ log = <<Event("full", "-", TRUE), Event("edit", b, TRUE),
                 Event("incremental", "-", TRUE)>> )
    => /\ vdb.collection = FreshFullIndex(content).vdb.collection
       /\ vdb.chunk_documents = FreshFullIndex(content).vdb.chunk_documents

\* C5: when the last processing of F raised and F was not edited since, the
\* recorded fingerprint of F is not the one of F's current content:
\* has_changed(F) is true.
C5_FailedFileStaysChanged ==
  \A f \in WalkFiles :
    (failedAt[f] # 0 /\ failedAt[f] = content[f])
    => has_changed(dg, content, StrKey(f))

\* C6: a run attempts every file it set out to process, whatever calls
\* raised on the way, and, unless it is stopped from outside, ends with all
\* of them attempted.
C6_FailureIsolation ==
  /\ pc = "run" => attempted \cup Range(queue) = eligible
  /\ (pc = "idle" /\ mode # "none" /\ pending = {}) => attempted = eligible

\* An incremental run that ended after A raised and B was then processed
\* without error.
C6_Witness ==
  /\ pc = "idle"
  /\ mode = "incremental"
  /\ "A" \in failed
  /\ "B" \in attempted \ failed
  /\ lastIndexed["B"] # 0

\* C11: has_changed is true for every path that cannot be read now,
\* whenever and however the path was registered.
C11_FailsOpen ==
  \A k \in Keys :
    content[KeyFile(k)] = Unreadable => has_changed(dg, content, k)

\* C13: a file whose processing succeeded in the current run has an
\* "imports" edge to the file of each of its resolved imports.
C13_ImportEdgesAfterProcessing ==
  \A f \in {g \in attempted \ failed : content[g] # Unreadable} :
    \A t \in Range(Imports(f, content[f])) :
      /\ <<f, t>> \in DOMAIN dg.edges
      /\ dg.edges[<<f, t>>] = "imports"

\* C18: right after a run was stopped between two files, every file the run
\* had still to process and whose current content is not indexed has
\* has_changed true and is selected by the scan of an incremental run.
C18_InterruptionSafety ==
  (pc = "idle" /\ log # <<>> /\ log[Len(log)].ev = "interrupted") =>
    \A f \in pending :
      lastIndexed[f] # content[f] =>
        /\ has_changed(dg, content, StrKey(f))
        /\ f \in Range(changed_files(dg, content))

\* C19: when a query is answered, every chunk text the index runs of the
\* session stored in the indexer's lexical corpus is in the lexical corpus
\* the query searched.
C19_IndexQuerySharing ==
  answer.called =>
    Range(vdb.chunk_documents) \subseteq Range(qdb.chunk_documents)

\* The chunk texts of file f when its content is v.
ChunkTextsAt(f, v) ==
  LET chunks == generate_chunks(NewGraph, [content EXCEPT ![f] = v], f).chunks
  IN [i \in 1..Len(chunks) |-> chunks[i].content]

\* C20: the chunk texts the last successful processing of a file embedded
\* and stored are the chunk texts of the content the file had at that moment.
C20_ChunkFreshness ==
  lastStored.file # "-" =>
    lastStored.documents = ChunkTextsAt(lastStored.file, lastStored.version)

\* C21: the keys of file_hashes are the nodes of the graph, one key per
\* file: the key add_file and _process_file write under is the key the
\* incremental scan reads and updates.
C21_FingerprintTableConsistency ==
  /\ DOMAIN dg.file_hashes = {StrKey(n) : n \in dg.nodes}
  /\ \A k1, k2 \in DOMAIN dg.file_hashes : KeyFile(k1) = KeyFile(k2) => k1 = k2

\* ================================= the DependencyGraph API as a state machine
\* Relation kinds a caller may pass as rel_type.
Kinds == {"imports", "injects"}

GraphFrame ==
  UNCHANGED <<content, cache, vdb, pc, mode, queue, eligible, attempted, failed,
              snap, lastIndexed, failedAt, log, result, appVars>>

AddFile ==
  /\ calls < MaxCalls
  /\ \E f \in Paths : dg' = add_file(dg, content, f)
  /\ calls' = calls + 1
  /\ related' = NoAnswer
  /\ UNCHANGED added
  /\ GraphFrame

AddDependency ==
  /\ calls < MaxCalls
  /\ \E s \in Paths, t \in Paths, k \in Kinds :
       /\ dg' = add_dependency(dg, content, s, t, k)
       /\ added' = added \cup {<<s, t, k>>}
  /\ calls' = calls + 1
  /\ related' = NoAnswer
  /\ GraphFrame

\* A read of the graph; the answer is kept until the graph is next changed.
GetRelated ==
  /\ related = NoAnswer
  /\ \E f \in Paths, d \in 0..MaxDepth :
       related' = [path |-> f, depth |-> d, files |-> get_related_files(dg, f, d)]
  /\ UNCHANGED <<dg, calls, added>>
  /\ GraphFrame

NextGraph == AddFile \/ AddDependency \/ GetRelated

SpecGraph == Init /\ [][NextGraph]_vars

\* There is a path of 1 to k edges from s to t.
RECURSIVE PathWithin(_, _, _, _)
PathWithin(g, s, t, k) ==
  /\ k >= 1
  /\ \/ <<s, t>> \in DOMAIN g.edges
     \/ \E m \in g.nodes : <<s, m>> \in DOMAIN g.edges /\ PathWithin(g, m, t, k - 1)

ExpectedRelated(g, path, depth) ==
  IF path \notin g.nodes THEN {}
  ELSE {n \in g.nodes \ {path} :
          PathWithin(g, path, n, depth) \/ PathWithin(g, n, path, depth)}

IsChain == DOMAIN dg.edges = {<<"A", "B">>, <<"B", "C">>, <<"C", External>>}

\* C9: get_related_files(path, depth) is the set of nodes other than path
\* that path reaches, or that reach path, over 1 to depth edges; it is empty
\* for an unknown path; on the chain A->B->C->X it is {B} at depth 1,
\* {B, C} at depth 2 and {} at depth 0.
C9_DepthBoundedTraversal ==
  /\ related.path # "-" =>
       related.files = ExpectedRelated(dg, related.path, related.depth)
  /\ IsChain => /\ get_related_files(dg, "A", 1) = {"B"}
                /\ get_related_files(dg, "A", 2) = {"B", "C"}
                /\ get_related_files(dg, "A", 0) = {}

\* get_related_files("A", 2) answered {B, C} on the chain.
C9_Witness ==
  /\ IsChain
  /\ related = [path |-> "A", depth |-> 2, files |-> {"B", "C"}]

\* C10: the graph holds exactly one edge for every distinct
\* (source, target, kind) triple add_dependency was called with.
C10_EdgeSetSemantics ==
  {<<e[1], e[2], dg.edges[e]>> : e \in DOMAIN dg.edges} = added

\* The graph after the add_dependency calls of a sequence, issued in order.
RECURSIVE Replay(_, _)
Replay(seq, g) ==
  IF seq = <<>> THEN g
  ELSE Replay(Tail(seq), add_dependency(g, content, seq[1][1], seq[1][2], seq[1][3]))

\* The orders in which the add_dependency calls made so far can be issued.
Orders ==
  {o \in [1..Cardinality(added) -> added] :
     \A i, j \in 1..Cardinality(added) : o[i] = o[j] => i = j}

\* C16: the edges and their kinds are the ones every order of the
\* add_dependency calls made so far produces, and repeating any of the calls
\* leaves the graph as it is.
C16_CommutativeIdempotent ==
  /\ \A o \in Orders : Replay(o, NewGraph).edges = dg.edges
  /\ \A x \in added : add_dependency(dg, content, x[1], x[2], x[3]) = dg

\* ================================ the AndroidVectorDB API as a state machine
Queries == {<<"class">>, <<"A", "function">>, <<"nothing">>}

\* Distances collection.query may report, in ten-thousandths.
Distances == {0, 4000, 12000}

\* What collection.query can return for n_results: an exception, or the
\* min(n_results, count) nearest records, nearest first.
VectorOutcomes(coll, n_results) ==
  LET m == Min(n_results, Cardinality(DOMAIN coll))
      lists == {h \in [1..m -> [id : DOMAIN coll, distance : Distances]] :
                  /\ \A i, j \in 1..m : h[i].id = h[j].id => i = j
                  /\ \A i, j \in 1..m : i < j => h[i].distance <= h[j].distance}
  IN {[raised |-> TRUE, hits |-> <<>>]} \cup {[raised |-> FALSE, hits |-> h] : h \in lists}

SearchFrame ==
  UNCHANGED <<content, dg, cache, pc, mode, queue, eligible, attempted, failed,
              snap, lastIndexed, failedAt, log, calls, added, related,
              pending, qdb, answer, lastStored, imp>>

\* The chunk lists store_chunks is called with: the embedded chunks of one
\* file of the project, or none (a file that could not be read).
Batches == {generate_embeddings(traverse_code(content, f)) : f \in WalkFiles} \cup {<<>>}

\* store_chunks; collection.add may raise.
StoreChunks ==
  /\ \E chunks \in Batches, fail \in {"none", "store"} :
       LET sc == store_chunks(vdb, chunks, fail)
       IN /\ Len(vdb.chunk_documents) + Len(chunks) <= MaxCorpus
          /\ vdb' = sc.vdb
          /\ lastStore' = [called |-> TRUE, raised |-> sc.raised, chunks |-> chunks,
                           before |-> vdb]
  /\ result' = NoResult
  /\ ctx' = NoContext
  /\ SearchFrame

\* A query; the answer is kept until chunks are next stored.
HybridSearch ==
  /\ ~result.called
  /\ \E query \in Queries, n \in 1..MaxK :
       \E lexical \in LexicalOutcomes(vdb, query, n),
          vector \in VectorOutcomes(vdb.collection, n) :
         LET r == fuse(vdb, vector, lexical, n)
         IN result' = [called |-> TRUE, raised |-> r.raised, list |-> r.list,
                       query |-> query, n |-> n, vector |-> vector,
                       lexical |-> lexical]
  /\ lastStore' = NoStore
  /\ UNCHANGED <<vdb, ctx>>
  /\ SearchFrame

NextSearch == StoreChunks \/ HybridSearch

SpecSearch == Init /\ [][NextSearch]_vars

\* The chunk a result entry is about.
ChunkOf(entry) == entry.metadata.chunk_id

InBothLists(c) ==
  /\ \E i \in 1..Len(result.vector.hits) : result.vector.hits[i].id = c
  /\ \E j \in 1..Len(result.lexical) : ChunkOf(result.lexical[j]) = c

EntriesOf(c) == {p \in 1..Len(result.list) : ChunkOf(result.list[p]) = c}

VectorDistance(c) ==
  result.vector.hits[CHOOSE i \in 1..Len(result.vector.hits) :
                       result.vector.hits[i].id = c].distance

\* C7: a chunk returned by both the vector search and the lexical search is
\* in the fused list once (when the list is not cut short of it, never
\* twice) with the score 1 - distance.
C7_BothListsOnceVectorScore ==
  (result.called /\ ~result.raised) =>
    \A c \in DOMAIN vdb.collection :
      InBothLists(c) =>
        /\ Cardinality(EntriesOf(c)) <= 1
        /\ \A p \in EntriesOf(c) : result.list[p].score = One - VectorDistance(c)
        /\ (Len(result.vector.hits) + Len(result.lexical) <= result.n)
             => Cardinality(EntriesOf(c)) = 1

\* C8: when the vector search raises, hybrid_search does not raise and
\* returns the fusion of the lexical results alone.
C8_GracefulDegradation ==
  (result.called /\ result.vector.raised) =>
    /\ ~result.raised
    /\ result.list = combine_results(vdb, <<>>, result.lexical, result.n)

\* The corpus index of a lexical hit.
HitIndex(hit) ==
  CHOOSE i \in 1..Len(vdb.chunk_documents) : LexicalId(i) = hit.id

\* C12: the lexical search returns the min(k, corpus size) best documents,
\* highest score first, and of two documents of equal score the one
\* inserted earlier comes first and is the one kept by the cut at k.
C12_LexicalOrder ==
  (result.called /\ ~result.raised) =>
    LET hits == result.lexical
        scores == get_scores(vdb.bm25_index, result.query)
        kept == {HitIndex(hits[r]) : r \in 1..Len(hits)}
    IN /\ Len(hits) = Min(result.n, Len(vdb.chunk_documents))
       /\ \A r, q \in 1..Len(hits) :
            r < q => \/ hits[r].score > hits[q].score
                     \/ /\ hits[r].score = hits[q].score
                        /\ HitIndex(hits[r]) < HitIndex(hits[q])
       /\ \A i \in (1..Len(vdb.chunk_documents)) \ kept : \A j \in kept :
            \/ scores[i] < scores[j]
            \/ scores[i] = scores[j] /\ j < i

\* The concatenation the last search fused: vector entries, then lexical ones.
Concatenation == combined(vdb, result.vector.hits, result.lexical)

\* The positions of the concatenation that hold the first entry of their id.
FirstOfId == {p \in 1..Len(Concatenation) :
                \A j \in 1..(p - 1) : Concatenation[j].id # Concatenation[p].id}

\* Position p of the concatenation cat goes before position q in the fused
\* list.
GoesBefore(cat, p, q) ==
  \/ cat[p].score > cat[q].score
  \/ (cat[p].score = cat[q].score /\ p < q)

\* C15: the fused list is determined by the two result lists: it is the
\* concatenation (vector entries first) without repeated ids, by score from
\* high to low, entries of equal score in concatenation order, cut to at most
\* n_results entries.
C15_FusionOrder ==
  (result.called /\ ~result.raised) =>
    \E cat \in {Concatenation}, first \in {FirstOfId} :
      /\ Len(result.list) = Min(result.n, Cardinality(first))
      /\ \E pos \in [1..Len(result.list) -> first] :
           /\ \A r \in 1..Len(result.list) : result.list[r] = cat[pos[r]]
           /\ \A r, s \in 1..Len(result.list) : r < s => GoesBefore(cat, pos[r], pos[s])
           /\ \A p \in first \ Range(pos) :
                \A r \in 1..Len(result.list) : GoesBefore(cat, pos[r], p)

\* A search returned two entries of equal score and cut others off.
C15_Witness ==
  /\ result.called
  /\ ~result.raised
  /\ Len(result.list) = 2
  /\ result.list[1].score = result.list[2].score
  /\ Cardinality(FirstOfId) > result.n

\* C17: every entry of the fused list that came from the lexical search has
\* a score between 0 and 1: the raw score divided by 10 when that is below 1,
\* and 1 otherwise.
C17_LexicalScoreInUnitInterval ==
  (result.called /\ ~result.raised) =>
    \A r \in 1..Len(result.list) : \A j \in 1..Len(result.lexical) :
      result.lexical[j].id = result.list[r].id =>
        /\ result.list[r].score \in 0..One
        /\ result.list[r].score = IF result.lexical[j].score < One
                                  THEN result.lexical[j].score ELSE One

\* The in-memory lexical index of an AndroidVectorDB.
LexicalIndex(db) ==
  [chunk_documents |-> db.chunk_documents, chunk_metadatas |-> db.chunk_metadatas,
   bm25_index |-> db.bm25_index, has_bm25 |-> db.has_bm25]

ContextQueries == {"Hilt class", "a VIEW of A", "nothing"}

\* analyze_query and str.split on the queries, tabulated.
QueryLabel == [query \in ContextQueries |-> analyze_query(query)]

QueryWords == [query \in ContextQueries |-> split(query)]

\* get_context; the answer is kept until chunks are next stored.
GetContext ==
  /\ ~ctx.called
  /\ \E query \in ContextQueries, n \in 1..MaxK :
       \E lexical \in LexicalOutcomes(vdb, QueryWords[query], n),
          vector \in VectorOutcomes(vdb.collection, n) :
         LET r == context_of(QueryLabel[query], fuse(vdb, vector, lexical, n))
         IN ctx' = [called |-> TRUE, raised |-> r.raised, query_type |-> r.query_type,
                    chunks |-> r.chunks, files |-> r.files,
                    query |-> query, n |-> n, vector |-> vector, lexical |-> lexical]
  /\ lastStore' = NoStore
  /\ UNCHANGED <<vdb, result>>
  /\ SearchFrame

NextContext == StoreChunks \/ GetContext

SpecContext == Init /\ [][NextContext]_vars

\* The (category, keyword) pairs whose keyword occurs in the text.
MatchingPairs(text) ==
  {p \in (1..Len(query_types)) \X (1..7) :
     /\ p[2] <= Len(query_types[p[1]].keywords)
     /\ Contains(query_types[p[1]].keywords[p[2]], text)}

\* The category of the first matching pair, or "general", for each query.
FirstCategory ==
  [query \in ContextQueries |->
     LET pairs == MatchingPairs(lower(query))
         first == CHOOSE p \in pairs :
                    \A q \in pairs : p[1] < q[1] \/ (p[1] = q[1] /\ p[2] <= q[2])
     IN IF pairs = {} THEN "general" ELSE <<"di", "ui", "logic", "data">>[first[1]]]

\* hits is a list _bm25_search may return for the words: the n best
\* documents of the corpus by BM25 score, best first, each with its score.
IsLexicalAnswer(hits, words, n) ==
  IF ~vdb.has_bm25 THEN hits = <<>>
  ELSE \E scores \in {get_scores(vdb.bm25_index, words)} :
         \E at \in [1..Len(hits) -> 1..Len(scores)] :
           /\ Len(hits) = Min(n, Len(scores))
           /\ \A r \in 1..Len(hits) :
                hits[r] = [id |-> LexicalId(at[r]), document |-> vdb.chunk_documents[at[r]],
                           metadata |-> vdb.chunk_metadatas[at[r]], score |-> scores[at[r]]]
           /\ \A r, s \in 1..Len(hits) : r < s => (at[r] # at[s] /\ scores[at[r]] >= scores[at[s]])
           /\ \A i \in (1..Len(scores)) \ Range(at) :
                \A r \in 1..Len(hits) : scores[at[r]] >= scores[i]

\* C14: the label of a context is the category of the first matching
\* (category, keyword) pair in the order di, ui, logic, data for the
\* lower-cased query, or "general" when nothing matches; the chunks of the
\* context are the list hybrid_search returns for the query, in its order,
\* whatever the label.
C14_QueryClassification ==
  (ctx.called /\ ~ctx.raised) =>
    /\ ctx.query_type = FirstCategory[ctx.query]
    /\ IsLexicalAnswer(ctx.lexical, QueryWords[ctx.query], ctx.n)
    /\ ctx.chunks = combine_results(vdb, ctx.vector.hits, ctx.lexical, ctx.n)

\* A query that names keywords of two categories, one of them only after
\* lower-casing, got the label of the earlier category and some chunks.
C14_Witness ==
  /\ ctx.called
  /\ ~ctx.raised
  /\ ctx.query_type = "di"
  /\ Contains("class", ctx.query)
  /\ ~Contains("hilt", ctx.query)
  /\ Len(ctx.chunks) > 0

\* ==================== import resolution (ast_parser.py) as a state machine
\* Paths are the sequences of their components below the root "/".
\* Java sources of a project: under .../java/, under .../kotlin/, directly in
\* a directory named java, and in a directory with no such ancestor.
SourceFiles ==
  { <<"app", "src", "main", "java", "com", "A.java">>,
    <<"lib", "kotlin", "C.java">>,
    <<"java", "D.java">>,
    <<"tools", "Gen.java">> }

\* Import statements, as the components of their dotted names.
ImportPaths == { <<"com", "B">>, <<"org", "lib", "Util">> }

ImportLists ==
  UNION {[1..n -> ImportPaths] : n \in 1..MaxImports}

\* pathlib: the parent of the root is the root, and the root's name is "".
Parent(path) == IF path = <<>> THEN <<>> ELSE SubSeq(path, 1, Len(path) - 1)

Name(path) == IF path = <<>> THEN "" ELSE path[Len(path)]

\* project_root / f"{package_path}.kt"
import_target(project_root, import_path) ==
  project_root \o [i \in 1..Len(import_path) |->
                     IF i = Len(import_path) THEN import_path[i] \o ".kt"
                     ELSE import_path[i]]

ImportFrame ==
  UNCHANGED <<content, dg, cache, vdb, pc, mode, queue, eligible, attempted, failed,
              snap, lastIndexed, failedAt, log, calls, added, related, result,
              pending, qdb, answer, ctx, lastStored, lastStore>>

\* _extract_code_chunks reaches its import loop with the imports of a file.
ExtractImports ==
  /\ imp.pc = "idle"
  /\ \E source \in SourceFiles, imports \in ImportLists :
       imp' = [pc |-> "for", source |-> source, imports |-> imports,
               project_root |-> <<>>, targets |-> <<>>]
  /\ ImportFrame

\* for imp in imports: the next import enters _import_to_file, which starts
\* from the directory of the source file; after the last one the loop ends.
ForImport ==
  /\ imp.pc = "for"
  /\ imp' = IF imp.imports = <<>>
            THEN [imp EXCEPT !.pc = "idle"]
            ELSE [imp EXCEPT !.pc = "while", !.project_root = Parent(imp.source)]
  /\ ImportFrame

\* The condition of the while loop of _import_to_file.
WhileTest ==
  /\ imp.pc = "while"
  /\ imp' = IF Name(imp.project_root) # "java" /\ Name(imp.project_root) # "kotlin"
            THEN [imp EXCEPT !.pc = "body"]
            ELSE [imp EXCEPT !.pc = "return"]
  /\ ImportFrame

\* The body of the while loop.
WhileBody ==
  /\ imp.pc = "body"
  /\ imp' = [imp EXCEPT !.pc = "while", !.project_root = Parent(@)]
  /\ ImportFrame

\* _import_to_file returns the target; the caller passes it to add_dependency.
ReturnTarget ==
  /\ imp.pc = "return"
  /\ imp' = [imp EXCEPT !.pc = "for",
                        !.targets = Append(@, import_target(imp.project_root,
                                                            Head(imp.imports))),
                        !.imports = Tail(@)]
  /\ ImportFrame

NextImport == ExtractImports \/ ForImport \/ WhileTest \/ WhileBody \/ ReturnTarget

\* The interpreter keeps executing the loops it is in.
SpecImport ==
  /\ Init
  /\ [][NextImport]_vars
  /\ WF_vars(ForImport)
  /\ WF_vars(WhileTest)
  /\ WF_vars(WhileBody)
  /\ WF_vars(ReturnTarget)

\* C23: whenever an import is being resolved, for whatever source file, the
\* resolution finishes and the import loop of the file comes to its end.
C23_ImportResolutionTerminates ==
  (imp.pc = "while") ~> (imp.pc = "idle")
====
